---- MODULE Spec2Model ----
(***************************************************************************)
(* Model of lissajous_generator.py: the note table and its lookup, the     *)
(* curve-to-solid pipeline create_lissajous_from_notes_3d, and the         *)
(* interactive front end main_interactive_lissajous_creator.               *)
(*                                                                         *)
(* Representation.                                                         *)
(*  - A Python str is a sequence of one-character strings.                 *)
(*  - Optional values (dict.get, a returned mesh or None) are sequences of *)
(*    length at most one: None is <<>>, a value v is <<v>>.                *)
(*  - Frequencies are in hundredths of a hertz.                            *)
(*  - Time is in ticks: step_size (1/44100 s) is 4 ticks, so the half step *)
(*    the code adds to end_time is exact.  Arithmetic on times is exact    *)
(*    rational arithmetic, not binary floating point.                      *)
(*  - Coordinates are in units of 5e-7, so the literal 1e-6 is 2.          *)
(*  - np.sin is not computable here: away from an argument of exactly 0 or *)
(*    pi/2 its value is any member of SinValues.                           *)
(*  - Lengths are kept squared (np.linalg.norm is never negative), and     *)
(*    to_v, the dot and the cross product are kept multiplied by           *)
(*    segment_length, which is positive wherever they are computed.        *)
(*  - A mesh made by a trimesh constructor is the record of the arguments  *)
(*    of the call.                                                         *)
(***************************************************************************)
EXTENDS Integers, Sequences, FiniteSets, TLC

VARIABLES
    pc,          \* position in the running function
    args,        \* arguments of create_lissajous_from_notes_3d
    omega,       \* <<omega_x, omega_y, omega_z>>, each an optional frequency
    t,           \* the sample times
    points,      \* the sampled curve
    i,           \* index of the segment loop
    all_meshes,  \* the transformed cylinders
    final_mesh,  \* optional: the assembled mesh
    exported,    \* the files written, in order
    result,      \* what create_lissajous_from_notes_3d returned
    out,         \* what create_lissajous_from_notes_3d printed, in order
    notes,       \* main: the notes recorded so far
    duration_val,\* main: optional, the duration last read
    radius_val,  \* main: optional, the tube radius last read
    last_print,  \* main: the last message printed
    calls        \* main: the calls of create_lissajous_from_notes_3d made

core_vars == <<args, omega, t, points, i, all_meshes, final_mesh, exported, result, out>>

main_vars == <<notes, duration_val, radius_val, last_print, calls>>

vars == <<pc, core_vars, main_vars>>

-----------------------------------------------------------------------------
(* Bounds of the model *)

\* longest duration of a full pipeline run, in ticks
MaxDuration == 7

\* the sampler runs alone for every duration up to the end-to-end scenario's
\* 0.01 s (1764 ticks) and this many ticks beyond
ScenarioSlack == 4

-----------------------------------------------------------------------------
(* Python values *)

None == <<>>

Some(v) == <<v>>

LowerLetters ==
    <<"a", "b", "c", "d", "e", "f", "g", "h", "i", "j", "k", "l", "m",
      "n", "o", "p", "q", "r", "s", "t", "u", "v", "w", "x", "y", "z">>

UpperLetters ==
    <<"A", "B", "C", "D", "E", "F", "G", "H", "I", "J", "K", "L", "M",
      "N", "O", "P", "Q", "R", "S", "T", "U", "V", "W", "X", "Y", "Z">>

UpperChar(c) ==
    IF \E k \in 1..26 : LowerLetters[k] = c
    THEN UpperLetters[CHOOSE k \in 1..26 : LowerLetters[k] = c]
    ELSE c

\* str.upper()
Upper(s) == [k \in 1..Len(s) |-> UpperChar(s[k])]

StartsWith(s, prefix) ==
    Len(prefix) <= Len(s) /\ SubSeq(s, 1, Len(prefix)) = prefix

\* str.replace(old, new) for a non-empty old: leftmost, non-overlapping
RECURSIVE Replace(_, _, _)
Replace(s, old, new) ==
    IF s = <<>> THEN <<>>
    ELSE IF StartsWith(s, old)
         THEN new \o Replace(SubSeq(s, Len(old) + 1, Len(s)), old, new)
         ELSE <<Head(s)>> \o Replace(Tail(s), old, new)

IsDigit(c) == c \in {"0", "1", "2", "3", "4", "5", "6", "7", "8", "9"}

\* str.isalpha() of one character
IsAlpha(c) == \E k \in 1..26 : c = LowerLetters[k] \/ c = UpperLetters[k]

\* str.strip()
RECURSIVE Strip(_)
Strip(s) ==
    IF s = <<>> THEN s
    ELSE IF Head(s) = " " THEN Strip(Tail(s))
    ELSE IF s[Len(s)] = " " THEN Strip(SubSeq(s, 1, Len(s) - 1))
    ELSE s

DigitValue(c) ==
    CASE c = "0" -> 0 [] c = "1" -> 1 [] c = "2" -> 2 [] c = "3" -> 3 [] c = "4" -> 4
      [] c = "5" -> 5 [] c = "6" -> 6 [] c = "7" -> 7 [] c = "8" -> 8 [] c = "9" -> 9

\* the number a sequence of digits writes
RECURSIVE DigitsValue(_)
DigitsValue(s) ==
    IF s = <<>> THEN 0 ELSE 10 * DigitsValue(SubSeq(s, 1, Len(s) - 1)) + DigitValue(s[Len(s)])

RECURSIVE Pow10(_)
Pow10(n) == IF n = 0 THEN 1 ELSE 10 * Pow10(n - 1)

\* Python floats: a finite one is the fraction num/den, an infinity has num 1
\* or -1, and nan compares false with everything
Float(num, den) == [kind |-> "num", num |-> num, den |-> den]

NaN == [kind |-> "nan", num |-> 0, den |-> 1]

Infinity(sign) == [kind |-> "inf", num |-> sign, den |-> 1]

\* x <= 0
LeZero(x) == x.kind # "nan" /\ x.num <= 0

\* x > 0, as the properties below read it
GtZero(x) == x.kind # "nan" /\ x.num > 0

\* float(s) of a str: None stands for ValueError.  Signs, nan, inf, infinity
\* and plain decimals are read; exponents and underscores are not, and no
\* entry of the model has one.
ParseFloat(s) ==
    LET body == Strip(s)
        signed == body # <<>> /\ body[1] \in {"+", "-"}
        sign == IF signed /\ body[1] = "-" THEN -1 ELSE 1
        mag == IF signed THEN Tail(body) ELSE body
        dots == {k \in 1..Len(mag) : mag[k] = "."}
        digits == SelectSeq(mag, IsDigit)
        decimal == /\ \A k \in 1..Len(mag) : IsDigit(mag[k]) \/ mag[k] = "."
                   /\ Cardinality(dots) <= 1
                   /\ digits # <<>>
        fraction == IF dots = {} THEN 0 ELSE Len(mag) - (CHOOSE k \in dots : TRUE)
    IN  IF Upper(mag) = <<"N", "A", "N">> THEN Some(NaN)
        ELSE IF Upper(mag) \in {<<"I", "N", "F">>,
                                <<"I", "N", "F", "I", "N", "I", "T", "Y">>}
             THEN Some(Infinity(sign))
        ELSE IF decimal THEN Some(Float(sign * DigitsValue(digits), Pow10(fraction)))
        ELSE None

-----------------------------------------------------------------------------
(* The note table and its lookup *)

NOTE_FREQUENCIES ==
    (<<"C", "4">> :> 26163)
    @@ (<<"C", "#", "4">> :> 27718) @@ (<<"D", "b", "4">> :> 27718)
    @@ (<<"D", "4">> :> 29366)
    @@ (<<"D", "#", "4">> :> 31113) @@ (<<"E", "b", "4">> :> 31113)
    @@ (<<"E", "4">> :> 32963)
    @@ (<<"F", "4">> :> 34923)
    @@ (<<"F", "#", "4">> :> 36999) @@ (<<"G", "b", "4">> :> 36999)
    @@ (<<"G", "4">> :> 39200)
    @@ (<<"G", "#", "4">> :> 41530) @@ (<<"A", "b", "4">> :> 41530)
    @@ (<<"A", "4">> :> 44000)
    @@ (<<"A", "#", "4">> :> 46616) @@ (<<"B", "b", "4">> :> 46616)
    @@ (<<"B", "4">> :> 49388)
    @@ (<<"C", "5">> :> 52325)
    @@ (<<"D", "5">> :> 58733)
    @@ (<<"E", "5">> :> 65925)
    @@ (<<"F", "5">> :> 69846)
    @@ (<<"G", "5">> :> 78399)
    @@ (<<"A", "5">> :> 88000)
    @@ (<<"B", "5">> :> 98777)

\* list(NOTE_FREQUENCIES.keys()): the keys in insertion order
NoteKeys ==
    << <<"C", "4">>, <<"C", "#", "4">>, <<"D", "b", "4">>, <<"D", "4">>,
       <<"D", "#", "4">>, <<"E", "b", "4">>, <<"E", "4">>, <<"F", "4">>,
       <<"F", "#", "4">>, <<"G", "b", "4">>, <<"G", "4">>, <<"G", "#", "4">>,
       <<"A", "b", "4">>, <<"A", "4">>, <<"A", "#", "4">>, <<"B", "b", "4">>,
       <<"B", "4">>, <<"C", "5">>, <<"D", "5">>, <<"E", "5">>, <<"F", "5">>,
       <<"G", "5">>, <<"A", "5">>, <<"B", "5">> >>

\* dict.get(key)
DictGet(d, key) == IF key \in DOMAIN d THEN Some(d[key]) ELSE None

get_note_frequency(note_name) ==
    LET upper == Replace(Replace(Replace(Replace(Upper(note_name),
                     <<"B", "#">>, <<"C">>), <<"E", "#">>, <<"F">>),
                     <<"C", "b">>, <<"B">>), <<"F", "b">>, <<"E">>)
        adjusted ==
            IF Len(upper) > 2 /\ upper[2] = "#"
            THEN <<upper[1]>> \o <<"#">> \o SubSeq(upper, 3, Len(upper))
            ELSE IF Len(upper) > 2 /\ upper[2] = "B"
                 THEN <<upper[1]>> \o <<"b">> \o SubSeq(upper, 3, Len(upper))
                 ELSE upper
    IN  DictGet(NOTE_FREQUENCIES, adjusted)

-----------------------------------------------------------------------------
(* Numeric helpers *)

\* ceil(a / b) for b > 0
CeilDiv(a, b) == -((-a) \div b)

Max(a, b) == IF a >= b THEN a ELSE b

sample_rate == 44100

\* 1.0 / sample_rate, in ticks
step_size == 4

\* a wrong arange: the quotient is truncated, not rounded up
ArangeLenTruncated(start, stop, step) == Max(0, (stop - start) \div step)

\* np.arange(start, stop, step): max(0, ceil((stop - start) / step)) values
ArangeLen(start, stop, step) == Max(0, CeilDiv(stop - start, step))

Arange(start, stop, step) ==
    [k \in 1..ArangeLen(start, stop, step) |-> start + (k - 1) * step]

\* len(range(n))
RangeLen(n) == Max(0, n)

\* the literal 1e-6, in coordinate units
EPS == 2

VecSub(a, b) == <<a[1] - b[1], a[2] - b[2], a[3] - b[3]>>

VecAdd(a, b) == <<a[1] + b[1], a[2] + b[2], a[3] + b[3]>>

\* np.dot
Dot(a, b) == a[1] * b[1] + a[2] * b[2] + a[3] * b[3]

\* np.cross
Cross(a, b) ==
    <<a[2] * b[3] - a[3] * b[2], a[3] * b[1] - a[1] * b[3], a[1] * b[2] - a[2] * b[1]>>

\* np.linalg.norm, squared
Norm2(v) == Dot(v, v)

from_v == <<0, 0, 1>>

\* segment_length < 1e-6
IsDegenerate(segment_vector) == Norm2(segment_vector) < EPS * EPS

-----------------------------------------------------------------------------
(* The sine *)

SinValues == {-1, 0, 1}

\* the values np.sin(2*pi*omega*time + phase) can take; a phase is in quarter
\* turns, 0 or 1 (pi/2)
Sin(omega_axis, time, phase) ==
    IF time = 0 THEN {IF phase = 0 THEN 0 ELSE 1} ELSE SinValues

\* the values of points[k] for the sample time: lines 96-100
PointValues(om, a, time) ==
    { <<a.amplitude[1] * sx, a.amplitude[2] * sy, a.amplitude[3] * sz>> :
        sx \in Sin(om[1], time, a.phase[1]),
        sy \in Sin(om[2], time, a.phase[2]),
        sz \in Sin(om[3], time, a.phase[3]) }

\* the point sequences lines 96-100 can produce for the times ts
Curves(om, a, ts) ==
    {ps \in [1..Len(ts) -> UNION {PointValues(om, a, ts[k]) : k \in 1..Len(ts)}] :
        \A k \in 1..Len(ts) : ps[k] \in PointValues(om, a, ts[k])}

-----------------------------------------------------------------------------
(* Meshes *)

\* trimesh.creation.cylinder(radius, height, sections), then apply_transform
\* of the matrix built from rotation_matrix(angle, direction) and mid_point
Cylinder(radius, height2, sections, cos_angle, direction, mid_point) ==
    [kind |-> "cylinder", radius |-> radius, height2 |-> height2,
     sections |-> sections, cos_angle |-> cos_angle, direction |-> direction,
     mid_point |-> mid_point]

\* trimesh.creation.icosphere(radius), the radius a fraction <<n, d>>
Icosphere(radius) == [kind |-> "icosphere", radius |-> radius]

\* trimesh.util.concatenate(meshes)
Concatenate(meshes) == [kind |-> "concatenate", parts |-> meshes]

\* the cylinder lines 116-135 build for the segment from start_point to end_point
TransformedCylinder(a, start_point, end_point) ==
    LET segment_vector == VecSub(end_point, start_point)
        to_v == segment_vector
    IN  Cylinder(a.tube_radius, Norm2(segment_vector), a.cylinder_segments,
                 Dot(from_v, to_v), Cross(from_v, to_v),
                 <<VecAdd(start_point, end_point), 2>>)

\* a wrong assembly: no fallback sphere
AssembledNoFallback(a, meshes) == Concatenate(meshes)

\* lines 138-142
Assembled(a, meshes) ==
    IF meshes = <<>> THEN Icosphere(<<a.tube_radius, 2>>) ELSE Concatenate(meshes)

-----------------------------------------------------------------------------
(* Arguments of create_lissajous_from_notes_3d *)

NoteTriples ==
    { <<<<"C", "4">>, <<"E", "4">>, <<"G", "4">>>>,
      <<<<"d", "b", "4">>, <<"f", "#", "4">>, <<"a", "5">>>>,
      <<<<"B", "#", "4">>, <<"E", "#", "4">>, <<"B", "b", "4">>>>,
      <<<<"C", "4">>, <<"H", "4">>, <<"G", "4">>>>,
      <<<<"C", "b", "4">>, <<"E", "4">>, <<"G", "4">>>>,
      <<<<"C", "4">>, <<"E", "4">>, <<"G">>>> }

Durations == (-step_size)..MaxDuration

AmplitudeTriples == { <<1, 1, 1>>, <<0, 0, 2>>, <<0, 0, 0>>, <<2, -1, 0>> }

PhaseTriples == { <<0, 0, 0>>, <<1, 0, 1>> }

Tubes == { [tube_radius |-> 1, cylinder_segments |-> 16],
           [tube_radius |-> 2, cylinder_segments |-> 3] }

DefaultFilename == "lissajous_3d_custom_notes.stl"

Arguments(note_names, duration, amplitude, phase, tube, filename) ==
    [notes |-> note_names, duration |-> duration, amplitude |-> amplitude,
     phase |-> phase, tube_radius |-> tube.tube_radius,
     cylinder_segments |-> tube.cylinder_segments, output_filename |-> filename]

\* the end-to-end scenario: C4, E4, G4 (261.63, 329.63, 392.00 Hz) for 0.01 s
ScenarioNotes == <<<<"C", "4">>, <<"E", "4">>, <<"G", "4">>>>

ScenarioDuration == (sample_rate * step_size) \div 100

ScenarioDurations ==
    (ScenarioDuration - ScenarioSlack)..(ScenarioDuration + ScenarioSlack)

-----------------------------------------------------------------------------
(* create_lissajous_from_notes_3d *)

\* main_interactive_lissajous_creator is not running
MainIdle ==
    /\ notes = <<>>
    /\ duration_val = None
    /\ radius_val = None
    /\ last_print = [msg |-> "none"]
    /\ calls = <<>>

\* the function has just been called with the arguments a
Called(a) ==
    /\ pc = "entry"
    /\ args = a
    /\ omega = <<None, None, None>>
    /\ t = <<>>
    /\ points = <<>>
    /\ i = 0
    /\ all_meshes = <<>>
    /\ final_mesh = None
    /\ exported = <<>>
    /\ result = None
    /\ out = <<>>

Init ==
    /\ \E note_names \in NoteTriples, duration \in Durations,
          amplitude \in AmplitudeTriples, phase \in PhaseTriples, tube \in Tubes :
           Called(Arguments(note_names, duration, amplitude, phase, tube, DefaultFilename))
    /\ MainIdle

\* the scenario's call, and the calls of slightly shorter and longer durations,
\* on a flat curve (every amplitude 0), which fixes the points
InitScenario ==
    /\ \E duration \in ScenarioDurations, tube \in Tubes :
           Called(Arguments(ScenarioNotes, duration, <<0, 0, 0>>, <<0, 0, 0>>,
                            tube, DefaultFilename))
    /\ MainIdle

\* a wrong lookup step: the error is printed but the call goes on
ResolveNoReturn ==
    /\ pc = "entry"
    /\ LET found == <<get_note_frequency(args.notes[1]),
                      get_note_frequency(args.notes[2]),
                      get_note_frequency(args.notes[3])>>
       IN  /\ omega' = found
           /\ out' = IF \E k \in 1..3 : found[k] = None
                     THEN Append(out, [msg |-> "invalid_notes", valid |-> NoteKeys])
                     ELSE Append(out, [msg |-> "generating"])
           /\ pc' = "arange"
    /\ UNCHANGED <<args, t, points, i, all_meshes, final_mesh, exported, result>>
    /\ UNCHANGED main_vars

\* lines 77-86: look the notes up; an unknown one ends the call
Resolve ==
    /\ pc = "entry"
    /\ LET found == <<get_note_frequency(args.notes[1]),
                      get_note_frequency(args.notes[2]),
                      get_note_frequency(args.notes[3])>>
       IN  /\ omega' = found
           /\ IF \E k \in 1..3 : found[k] = None
              THEN /\ out' = Append(out, [msg |-> "invalid_notes",
                                          valid |-> NoteKeys])
                   /\ pc' = "returned"
              ELSE /\ out' = Append(out, [msg |-> "generating"])
                   /\ pc' = "arange"
    /\ UNCHANGED <<args, t, points, i, all_meshes, final_mesh, exported, result>>
    /\ UNCHANGED main_vars

\* a wrong sampler: no half step is added to end_time
SampleNoHalfStep ==
    /\ pc = "arange"
    /\ t' = Arange(0, args.duration, step_size)
    /\ pc' = "curve"
    /\ UNCHANGED <<args, omega, points, i, all_meshes, final_mesh, exported, result, out>>
    /\ UNCHANGED main_vars

\* lines 89-93: the sample times
Sample ==
    /\ pc = "arange"
    /\ t' = Arange(0, args.duration + step_size \div 2, step_size)
    /\ pc' = "curve"
    /\ UNCHANGED <<args, omega, points, i, all_meshes, final_mesh, exported, result, out>>
    /\ UNCHANGED main_vars

\* lines 96-103: the points of the curve, and the empty mesh list
Curve ==
    /\ pc = "curve"
    /\ points' \in Curves(<<omega[1][1], omega[2][1], omega[3][1]>>, args, t)
    /\ all_meshes' = <<>>
    /\ i' = 0
    /\ pc' = "loop"
    /\ UNCHANGED <<args, omega, t, final_mesh, exported, result, out>>
    /\ UNCHANGED main_vars

\* lines 106-136: one iteration of the segment loop (i counts from 0)
Segment ==
    /\ pc = "loop"
    /\ i < RangeLen(Len(points) - 1)
    /\ LET start_point == points[i + 1]
           end_point == points[i + 2]
       IN  all_meshes' =
               IF IsDegenerate(VecSub(end_point, start_point))
               THEN all_meshes
               ELSE Append(all_meshes, TransformedCylinder(args, start_point, end_point))
    /\ i' = i + 1
    /\ UNCHANGED <<pc, args, omega, t, points, final_mesh, exported, result, out>>
    /\ UNCHANGED main_vars

\* lines 138-142: the loop is over; assemble the mesh
Assemble ==
    /\ pc = "loop"
    /\ i >= RangeLen(Len(points) - 1)
    /\ final_mesh' = Some(Assembled(args, all_meshes))
    /\ out' = IF all_meshes = <<>> THEN Append(out, [msg |-> "no_segments"]) ELSE out
    /\ pc' = "export"
    /\ UNCHANGED <<args, omega, t, points, i, all_meshes, exported, result>>
    /\ UNCHANGED main_vars

\* lines 144-146: write the file and return the mesh
Export ==
    /\ pc = "export"
    /\ exported' = Append(exported, [filename |-> args.output_filename,
                                     mesh |-> final_mesh[1]])
    /\ out' = Append(out, [msg |-> "saved", filename |-> args.output_filename])
    /\ result' = final_mesh
    /\ pc' = "returned"
    /\ UNCHANGED <<args, omega, t, points, i, all_meshes, final_mesh>>
    /\ UNCHANGED main_vars

-----------------------------------------------------------------------------
(* main_interactive_lissajous_creator *)

\* what the user may type at a note prompt
NoteEntries ==
    { <<"C", "4">>, <<" ", "e", "4", " ">>, <<"D", "#", "4">>, <<"A", "5">>,
      <<"D", "b", "4">>, <<"B", "b", "4">>, <<"e", "b", "4">>,
      <<"B", "#", "4">>, <<"C", "b", "4">>,
      <<"C">>, <<"H", "4">>, <<"4">>, <<>> }

\* what the user may type at the duration and radius prompts
NumberEntries ==
    { <<>>, <<"0", ".", "0", "5">>, <<" ", "2", " ">>, <<".", "5">>,
      <<"0">>, <<"-", "1">>, <<"-", "0", ".", "0">>,
      <<"a", "b", "c">>, <<" ">>, <<"n", "a", "n">>, <<"i", "n", "f">>,
      <<"-", "i", "n", "f">> }

\* what the user may type at the file name prompt
FilenameEntries == {"", "mi_curva.stl"}

\* the core is not running
CoreIdle ==
    /\ args = None
    /\ omega = <<None, None, None>>
    /\ t = <<>>
    /\ points = <<>>
    /\ i = 0
    /\ all_meshes = <<>>
    /\ final_mesh = None
    /\ exported = <<>>
    /\ result = None
    /\ out = <<>>

\* lines 154-158
InitMain ==
    /\ pc = "note"
    /\ CoreIdle
    /\ notes = <<>>
    /\ duration_val = None
    /\ radius_val = None
    /\ last_print = [msg |-> "banner"]
    /\ calls = <<>>

\* line 163
Normalize(note_input) ==
    Replace(Replace(Replace(Replace(Upper(note_input),
        <<"B", "#">>, <<"C">>), <<"E", "#">>, <<"F">>),
        <<"C", "B">>, <<"B">>), <<"F", "B">>, <<"E">>)

\* lines 178-182: the first key, in the table's order, whose upper case is the
\* normalized note
FirstKeyMatching(normalized_note) ==
    LET hits == {k \in 1..Len(NoteKeys) : Upper(NoteKeys[k]) = normalized_note}
    IN  IF hits = {} THEN None
        ELSE Some(NoteKeys[CHOOSE k \in hits : \A h \in hits : k <= h])

\* lines 164-184: the note the entry records, or None when it falls through to
\* the message of line 186
RecordedNote(normalized_note) ==
    IF Len(normalized_note) > 1 /\ IsDigit(normalized_note[Len(normalized_note)])
    THEN IF normalized_note \in DOMAIN NOTE_FREQUENCIES
         THEN Some(normalized_note)
         ELSE IF Len(normalized_note) = 1
                 /\ (normalized_note \o <<"4">>) \in DOMAIN NOTE_FREQUENCIES
              THEN Some(normalized_note \o <<"4">>)
         ELSE IF /\ Len(normalized_note) = 2
                 /\ IsAlpha(normalized_note[1])
                 /\ IsDigit(normalized_note[2])
              THEN FirstKeyMatching(normalized_note)
         ELSE None
    ELSE None

\* lines 160-186: one round of the prompt for note number Len(notes) + 1
PromptNote ==
    /\ pc = "note"
    /\ \E entry \in NoteEntries :
           LET note_input == Strip(entry)
               recorded == RecordedNote(Normalize(note_input))
           IN  IF recorded # None
               THEN /\ notes' = Append(notes, recorded[1])
                    /\ pc' = IF Len(notes) + 1 = 3 THEN "duration" ELSE "note"
                    /\ UNCHANGED last_print
               ELSE /\ last_print' = [msg |-> "unrecognized", note_input |-> note_input]
                    /\ UNCHANGED <<pc, notes>>
    /\ UNCHANGED <<duration_val, radius_val, calls>>
    /\ UNCHANGED core_vars

\* lines 189-201: one round of the duration prompt
PromptDuration ==
    /\ pc = "duration"
    /\ \E duration_input \in NumberEntries :
           IF duration_input = <<>>
           THEN /\ duration_val' = Some(Float(5, 100))
                /\ pc' = "radius"
                /\ UNCHANGED last_print
           ELSE IF ParseFloat(duration_input) = None
           THEN /\ last_print' = [msg |-> "invalid_number"]
                /\ UNCHANGED <<pc, duration_val>>
           ELSE /\ duration_val' = ParseFloat(duration_input)
                /\ IF LeZero(ParseFloat(duration_input)[1])
                   THEN /\ last_print' = [msg |-> "duration_not_positive"]
                        /\ UNCHANGED pc
                   ELSE /\ pc' = "radius"
                        /\ UNCHANGED last_print
    /\ UNCHANGED <<notes, radius_val, calls>>
    /\ UNCHANGED core_vars

\* lines 204-216: one round of the radius prompt
PromptRadius ==
    /\ pc = "radius"
    /\ \E radius_input \in NumberEntries :
           IF radius_input = <<>>
           THEN /\ radius_val' = Some(Float(5, 100))
                /\ pc' = "filename"
                /\ UNCHANGED last_print
           ELSE IF ParseFloat(radius_input) = None
           THEN /\ last_print' = [msg |-> "invalid_number"]
                /\ UNCHANGED <<pc, radius_val>>
           ELSE /\ radius_val' = ParseFloat(radius_input)
                /\ IF LeZero(ParseFloat(radius_input)[1])
                   THEN /\ last_print' = [msg |-> "radius_not_positive"]
                        /\ UNCHANGED pc
                   ELSE /\ pc' = "filename"
                        /\ UNCHANGED last_print
    /\ UNCHANGED <<notes, duration_val, calls>>
    /\ UNCHANGED core_vars

\* lines 219-230: read the file name and call create_lissajous_from_notes_3d;
\* the call is recorded by its keyword arguments
CallCreate ==
    /\ pc = "filename"
    /\ \E filename_input \in FilenameEntries :
           calls' = Append(calls,
               [note1_name |-> notes[1], note2_name |-> notes[2],
                note3_name |-> notes[3], duration |-> duration_val[1],
                tube_radius |-> radius_val[1],
                output_filename |-> IF filename_input # "" THEN filename_input
                                    ELSE DefaultFilename])
    /\ pc' = "called"
    /\ UNCHANGED <<notes, duration_val, radius_val, last_print>>
    /\ UNCHANGED core_vars

NextMain == PromptNote \/ PromptDuration \/ PromptRadius \/ CallCreate

SpecMain == InitMain /\ [][NextMain]_vars

-----------------------------------------------------------------------------
(* Specifications *)

Next == Resolve \/ Sample \/ Curve \/ Segment \/ Assemble \/ Export

Spec == Init /\ [][Next]_vars

SpecScenario == InitScenario /\ [][Next]_vars

-----------------------------------------------------------------------------
(* Properties *)

\* every note of the call resolves
AllResolve == \A k \in 1..3 : get_note_frequency(args.notes[k]) # None

\* the sample times have been computed
Sampled == pc \in {"curve", "loop", "export"} \/ (pc = "returned" /\ AllResolve)

\* the segment loop is over
LoopDone == pc = "export" \/ (pc = "returned" /\ AllResolve)

\* the number of consecutive pairs of ps closer than 1e-6
DegeneratePairs(ps) ==
    Cardinality({k \in 1..(Len(ps) - 1) : IsDegenerate(VecSub(ps[k + 1], ps[k]))})

\* the cylinders of the non-degenerate consecutive pairs of ps, in index order
MeshesInOrder(a, ps) ==
    LET NonDegenerate(k) == ~IsDegenerate(VecSub(ps[k + 1], ps[k]))
        kept == SelectSeq([k \in 1..(Len(ps) - 1) |-> k], NonDegenerate)
    IN  [j \in 1..Len(kept) |-> TransformedCylinder(a, ps[kept[j]], ps[kept[j] + 1])]

\* a mesh with no vertices and no faces
IsEmptyMesh(m) == m.kind = "concatenate" /\ m.parts = <<>>

\* C1 as stated: for D > 0 the sampler produces exactly floor(D*44100)+1
\* sample times k/44100, k = 0, 1, ..., the first 0 and none above D.
C1_CountIsFloorPlusOne ==
    (Sampled /\ args.duration > 0) =>
        /\ Len(t) = args.duration \div step_size + 1
        /\ \A k \in 1..Len(t) : t[k] = (k - 1) * step_size
        /\ t[Len(t)] <= args.duration

\* C1 as amended: for D > 0 the sampler produces the sample times k/44100,
\* k = 0, 1, ..., n-1, where n is the integer with
\* (n-1)/44100 < D + 1/(2*44100) <= n/44100: the first is 0, and the last is
\* the largest step below D plus half a step (it may exceed D).
C1_CountIsHalfStepCeiling ==
    (Sampled /\ args.duration > 0) =>
        /\ Len(t) >= 1
        /\ 2 * (Len(t) - 1) * step_size < 2 * args.duration + step_size
        /\ 2 * args.duration + step_size <= 2 * Len(t) * step_size
        /\ \A k \in 1..Len(t) : t[k] = (k - 1) * step_size

\* a duration of 3/4 of a step has been sampled: two samples, the second
\* after the end of the duration
C1_Witness ==
    /\ pc = "curve"
    /\ args.duration = 3
    /\ t = <<0, step_size>>

\* C2 as stated: when the segment loop is over, the number of meshes is
\* (point count - 1) minus the number of degenerate consecutive pairs, the
\* meshes are those of the non-degenerate pairs in index order, and there is
\* none when there are fewer than 2 points.
C2_MeshCount ==
    LoopDone =>
        /\ Len(all_meshes) = (Len(points) - 1) - DegeneratePairs(points)
        /\ all_meshes = MeshesInOrder(args, points)
        /\ (Len(points) < 2 => all_meshes = <<>>)

\* C3: whenever the three notes resolve, the mesh handed to the exporter is
\* the fallback sphere of radius tube_radius/2 if no segment mesh was made
\* and the concatenation of the segment meshes otherwise, it is never empty,
\* and the call ends having written that mesh once and returning it.
C3_ExportedMeshNeverEmpty ==
    (LoopDone /\ AllResolve) =>
        /\ final_mesh # None
        /\ (all_meshes = <<>> => final_mesh[1] = Icosphere(<<args.tube_radius, 2>>))
        /\ (all_meshes # <<>> => final_mesh[1] = Concatenate(all_meshes))
        /\ ~IsEmptyMesh(final_mesh[1])
        /\ (pc = "returned" =>
               /\ result = final_mesh
               /\ exported = <<[filename |-> args.output_filename,
                                mesh |-> final_mesh[1]]>>)

\* a call whose segments were all degenerate has returned the fallback sphere
C3_Witness ==
    /\ pc = "returned"
    /\ Len(points) >= 2
    /\ all_meshes = <<>>
    /\ result = Some(Icosphere(<<args.tube_radius, 2>>))
    /\ Len(exported) = 1

\* C4: if a note name does not resolve, the call returns None after printing
\* the valid names and nothing is sampled, built or exported; a name that
\* matches no key resolves to None, not to a frequency; and a file is written
\* at most once, only after the assembly, and exactly once by the time a call
\* whose three notes resolve has returned.
C4_InvalidNoteStopsTheCall ==
    /\ (~AllResolve =>
           /\ pc \in {"entry", "returned"}
           /\ t = <<>> /\ points = <<>> /\ all_meshes = <<>>
           /\ final_mesh = None /\ exported = <<>> /\ result = None
           /\ (pc = "returned" =>
                  out = <<[msg |-> "invalid_notes", valid |-> NoteKeys]>>))
    /\ (\A k \in 1..3 :
           (\A j \in 1..Len(NoteKeys) : Upper(NoteKeys[j]) # Upper(args.notes[k]))
               /\ ~StartsWith(Upper(args.notes[k]), <<"B", "#">>)
               /\ ~StartsWith(Upper(args.notes[k]), <<"E", "#">>)
           => (pc # "entry" => omega[k] = None))
    /\ Len(exported) <= 1
    /\ (exported # <<>> => AllResolve /\ pc = "returned" /\ final_mesh # None)
    /\ (pc = "returned" /\ AllResolve => Len(exported) = 1)

\* a call with an unknown third note has returned None
C4_Witness ==
    /\ pc = "returned"
    /\ get_note_frequency(args.notes[1]) # None
    /\ get_note_frequency(args.notes[2]) # None
    /\ get_note_frequency(args.notes[3]) = None
    /\ result = None
    /\ exported = <<>>

\* C5 as stated: with valid notes and D <= 0 an error is surfaced, no mesh
\* is assembled and no file is exported.
C5_NonPositiveDurationFails ==
    (AllResolve /\ args.duration <= 0) =>
        /\ final_mesh = None
        /\ exported = <<>>
        /\ (pc = "returned" => result = None)

\* C6 as stated: a non-positive tube radius or amplitude, or fewer than 3
\* radial segments, is refused before any cylinder is built, and no file is
\* produced.  It is stated for the durations of at least one step, which
\* give two samples or more, so that it does not rest on the duration.
C6_InvalidParameterFails ==
    (AllResolve /\ args.duration >= step_size
                /\ (\/ args.tube_radius <= 0
                    \/ \E k \in 1..3 : args.amplitude[k] <= 0
                    \/ args.cylinder_segments < 3)) =>
        /\ all_meshes = <<>>
        /\ final_mesh = None
        /\ exported = <<>>
        /\ (pc = "returned" => result = None)

\* C7 as stated: the cylinder of a segment parallel or antiparallel to
\* (0, 0, 1) is not rotated about the zero cross product.
C7_NoZeroRotationAxis ==
    \A k \in 1..Len(all_meshes) :
        all_meshes[k].kind = "cylinder" => all_meshes[k].direction # <<0, 0, 0>>

\* C8 as stated: the scenario (261.63, 329.63, 392.00 Hz, 0.01 s, 44100
\* samples per second) gives 441 samples and 440 candidate segments.
C8_Scenario441Samples ==
    (args.notes = ScenarioNotes /\ args.duration = ScenarioDuration) =>
        /\ (Sampled => Len(t) = 441)
        /\ (pc \in {"loop", "export", "returned"} => Len(points) = 441)
        /\ (LoopDone => i = 440)

\* C8 as amended: the scenario gives 442 samples (0.01 * 44100 = 441 steps,
\* and the sample at each end) and 441 candidate segments.
C8_Scenario442Samples ==
    (args.notes = ScenarioNotes /\ args.duration = ScenarioDuration) =>
        /\ omega = IF pc = "entry" THEN <<None, None, None>>
                   ELSE <<Some(26163), Some(32963), Some(39200)>>
        /\ (Sampled => Len(t) = 442)
        /\ (pc \in {"loop", "export", "returned"} => Len(points) = 442)
        /\ (LoopDone => i = 441)

\* the scenario's call has returned
C8_Witness ==
    /\ args.notes = ScenarioNotes
    /\ args.duration = ScenarioDuration
    /\ pc = "returned"
    /\ Len(points) = 442
    /\ i = 441

\* the flat spellings of the table
FlatSpellings ==
    { <<"D", "b", "4">>, <<"E", "b", "4">>, <<"G", "b", "4">>,
      <<"A", "b", "4">>, <<"B", "b", "4">> }

\* C9 as stated: a flat spelling of the table entered at a note prompt is
\* accepted (never answered with the message of line 186), and every note
\* recorded is a key of the table.
C9_FlatSpellingsAccepted ==
    /\ (last_print.msg = "unrecognized" => last_print.note_input \notin FlatSpellings)
    /\ \A k \in 1..Len(notes) : notes[k] \in DOMAIN NOTE_FREQUENCIES

\* C10 as stated: create_lissajous_from_notes_3d is called at most once,
\* with three recorded notes that get_note_frequency resolves, a duration > 0
\* and a tube radius > 0.
C10_CallIsValid ==
    /\ Len(calls) <= 1
    /\ \A c \in 1..Len(calls) :
           /\ Len(notes) = 3
           /\ calls[c].note1_name = notes[1]
           /\ calls[c].note2_name = notes[2]
           /\ calls[c].note3_name = notes[3]
           /\ \A k \in 1..3 : get_note_frequency(notes[k]) # None
           /\ GtZero(calls[c].duration)
           /\ GtZero(calls[c].tube_radius)

====
